---------------------------- MODULE Spec2Model ----------------------------
(***************************************************************************)
(* Model of the mortgage calculation engine of mortgage-analysis-tool      *)
(* (mortgage_calculator.py and its call sites in app.py).                  *)
(*                                                                         *)
(* Numbers.  The program computes with Python floats.  Here a real number  *)
(* x is the integer x * Scale (fixed point, resolution 1/Scale).  Sums,    *)
(* differences and products with a Python int are exact; every product    *)
(* and quotient of two reals is rounded to the nearest representable       *)
(* value, as each float operation is.  The resolution is far coarser than  *)
(* a double's, so rounding drift that a double shows in the 10th decimal   *)
(* shows here in the 6th: what is exact here is exact arithmetic of the    *)
(* formula, what drifts here drifts in the program.  A Python int (a term  *)
(* in years, a payment number) is an unscaled integer.                     *)
(*                                                                         *)
(* Outcomes.  A call ends with a value or with a raised exception:         *)
(* Val(x) or Raise(e).  The only exception the calculator can raise is     *)
(* Python's ZeroDivisionError; the error the specification names is        *)
(* InvalidArgument.                                                        *)
(***************************************************************************)
EXTENDS Integers, Sequences, FiniteSets, TLC

\* ------------------------------------------------------------------ numbers

\* A real is held to six decimals: Scale = Limb * Limb, and a fraction
\* splits into two limbs of three decimals.
Limb == 10 * 10 * 10

Scale == Limb * Limb

One == Scale

\* The real number n/d (d > 0) as a fixed-point value; exact when d divides
\* n * Scale.
Real(n, d) == (n * Scale) \div d

Abs(x) == IF x < 0 THEN -x ELSE x

Sgn(x) == IF x < 0 THEN -1 ELSE 1

\* Product of two non-negative reals, rounded to nearest.  With
\* a = qa + ra and b = qb + rb (whole part + fraction) the product is
\* qa*b + ra*qb + ra*rb, and ra*rb is formed limb by limb, so that no
\* partial product is larger than the result or than 2 * Scale * Limb.
MulNat(a, b) ==
    LET qa == a \div Scale
        ra == a % Scale
        qb == b \div Scale
        rb == b % Scale
        x1 == ra \div Limb
        x0 == ra % Limb
        y1 == rb \div Limb
        y0 == rb % Limb
        low == (x1 * y0 + x0 * y1) * Limb + x0 * y0
    IN  qa * b + ra * qb + x1 * y1 + (low + Scale \div 2) \div Scale

\* float * float
Mul(a, b) == Sgn(a) * Sgn(b) * MulNat(Abs(a), Abs(b))

\* <<q, r>> stands for the number q*b + r, 0 <= r < b.  Doubling and adding
\* such numbers never forms a value above b.
QRAdd(x, y, b) ==
    IF x[2] >= b - y[2]
    THEN <<x[1] + y[1] + 1, x[2] - (b - y[2])>>
    ELSE <<x[1] + y[1], x[2] + y[2]>>

\* 10 * r as <<q, r'>>: 10r = 8r + 2r.
QRTimes10(r, b) ==
    LET x1 == <<0, r>>
        x2 == QRAdd(x1, x1, b)
        x4 == QRAdd(x2, x2, b)
        x8 == QRAdd(x4, x4, b)
    IN  QRAdd(x8, x2, b)

\* Long division: the decimal digits of q + r/b down to the resolution,
\* s running from Scale to 1 by tens; the last digit is rounded.
RECURSIVE LongDiv(_, _, _, _)
LongDiv(q, r, b, s) ==
    IF s = 1
    THEN IF r >= b - r THEN q + 1 ELSE q
    ELSE LET d == QRTimes10(r, b)
         IN  LongDiv(q * 10 + d[1], d[2], b, s \div 10)

\* Quotient of a non-negative real by a positive real, rounded to nearest.
DivNat(a, b) == LongDiv(a \div b, a % b, b, Scale)

\* float / float, b # 0 (the callers test for zero and raise).
Div(a, b) == Sgn(a) * Sgn(b) * DivNat(Abs(a), Abs(b))

\* float / int, n # 0: no rescaling, one rounding.
DivInt(a, n) == Sgn(a) * Sgn(n) * ((2 * Abs(a) + Abs(n)) \div (2 * Abs(n)))

\* float * int: exact.
MulInt(a, n) == a * n

\* x ** n for an int n >= 0, each product rounded.
RECURSIVE PowNat(_, _)
PowNat(x, n) == IF n = 0 THEN One ELSE Mul(PowNat(x, n - 1), x)

\* x ** n for any int n (x # 0 when n < 0): a negative power is the
\* reciprocal of the positive one.
Pow(x, n) == IF n >= 0 THEN PowNat(x, n) ELSE Div(One, PowNat(x, -n))

\* ----------------------------------------------------------------- outcomes

Val(x) == [tag |-> "value", v |-> x, exc |-> "none"]

Raise(e) == [tag |-> "raise", v |-> 0, exc |-> e]

NoOutcome == [tag |-> "none", v |-> 0, exc |-> "none"]

\* --------------------------------------------------------------- calculator

PaymentsPerYear == 12

PercentBase == 100

\* monthly_rate = annual_interest_rate / 100 / 12
MonthlyRate(annual_interest_rate) ==
    DivInt(DivInt(annual_interest_rate, PercentBase), PaymentsPerYear)

\* num_payments = term_years * 12
NumPayments(term_years) == term_years * PaymentsPerYear

\* Faulty variant of the branch test: the zero-rate case is not singled
\* out and every rate goes through the annuity formula.
MutZeroRateBranch(monthly_rate) == FALSE

ZeroRateBranch(monthly_rate) == monthly_rate = 0

calculate_monthly_payment(principal, annual_interest_rate, term_years) ==
    LET monthly_rate == MonthlyRate(annual_interest_rate)
        num_payments == NumPayments(term_years)
        growth       == Pow(One + monthly_rate, num_payments)
    IN  IF ZeroRateBranch(monthly_rate)
        THEN IF num_payments = 0
             THEN Raise("ZeroDivisionError")
             ELSE Val(DivInt(principal, num_payments))
        ELSE IF growth - One = 0
             THEN Raise("ZeroDivisionError")
             ELSE Val(Div(Mul(principal, Mul(monthly_rate, growth)), growth - One))

\* Faulty variant of the loop test: range(1, num_payments).
MutLoopHasNext(payment_num, num_payments) == payment_num + 1 < num_payments

\* for payment_num in range(1, num_payments + 1): another iteration follows
\* the one numbered payment_num (0 before the first).
LoopHasNext(payment_num, num_payments) == payment_num < num_payments

\* Faulty variant of the loop body: the last payment absorbs no residual.
MutLoopBody(payment_num, num_payments, monthly_payment, monthly_rate, remaining_balance) ==
    LET interest_payment  == Mul(remaining_balance, monthly_rate)
        principal_payment == monthly_payment - interest_payment
    IN  [payment_num       |-> payment_num,
         payment           |-> monthly_payment,
         principal         |-> principal_payment,
         interest          |-> interest_payment,
         remaining_balance |-> remaining_balance - principal_payment]

\* Faulty variant of the loop body: the last balance is set to 0 and the
\* residual is dropped.
MutLoopBodyDropResidual(payment_num, num_payments, monthly_payment, monthly_rate, remaining_balance) ==
    LET interest_payment  == Mul(remaining_balance, monthly_rate)
        principal_payment == monthly_payment - interest_payment
        balance           == remaining_balance - principal_payment
        last              == payment_num = num_payments
    IN  [payment_num       |-> payment_num,
         payment           |-> monthly_payment,
         principal         |-> principal_payment,
         interest          |-> interest_payment,
         remaining_balance |-> IF last THEN 0 ELSE balance]

\* Faulty variant of the loop body: the last record's payment is what is
\* paid in it, principal and interest.
MutLoopBodyLastPayment(payment_num, num_payments, monthly_payment, monthly_rate, remaining_balance) ==
    LET interest_payment  == Mul(remaining_balance, monthly_rate)
        principal_payment == monthly_payment - interest_payment
        balance           == remaining_balance - principal_payment
        last              == payment_num = num_payments
    IN  [payment_num       |-> payment_num,
         payment           |-> IF last THEN monthly_payment + balance
                                       ELSE monthly_payment,
         principal         |-> IF last THEN principal_payment + balance
                                       ELSE principal_payment,
         interest          |-> interest_payment,
         remaining_balance |-> IF last THEN 0 ELSE balance]

\* Faulty variant of the loop body: the principal portion is added to the
\* balance.
MutLoopBodyBalanceGrows(payment_num, num_payments, monthly_payment, monthly_rate, remaining_balance) ==
    LET interest_payment  == Mul(remaining_balance, monthly_rate)
        principal_payment == monthly_payment - interest_payment
        balance           == remaining_balance + principal_payment
        last              == payment_num = num_payments
    IN  [payment_num       |-> payment_num,
         payment           |-> monthly_payment,
         principal         |-> IF last THEN principal_payment + balance
                                       ELSE principal_payment,
         interest          |-> interest_payment,
         remaining_balance |-> IF last THEN 0 ELSE balance]

\* One iteration of the loop of generate_amortization_schedule: the record
\* appended for payment payment_num, given the balance before it.
LoopBody(payment_num, num_payments, monthly_payment, monthly_rate, remaining_balance) ==
    LET interest_payment  == Mul(remaining_balance, monthly_rate)
        principal_payment == monthly_payment - interest_payment
        balance           == remaining_balance - principal_payment
        last              == payment_num = num_payments
    IN  [payment_num       |-> payment_num,
         payment           |-> monthly_payment,
         principal         |-> IF last THEN principal_payment + balance
                                       ELSE principal_payment,
         interest          |-> interest_payment,
         remaining_balance |-> IF last THEN 0 ELSE balance]

calculate_total_interest(principal, annual_interest_rate, term_years) ==
    LET monthly_payment == calculate_monthly_payment(principal, annual_interest_rate, term_years)
    IN  IF monthly_payment.tag = "raise"
        THEN monthly_payment
        ELSE Val(MulInt(MulInt(monthly_payment.v, term_years), PaymentsPerYear) - principal)

\* (loan_amount / property_value) * 100; Python raises on a zero divisor.
calculate_loan_to_value(loan_amount, property_value) ==
    IF property_value = 0
    THEN Raise("ZeroDivisionError")
    ELSE Val(MulInt(Div(loan_amount, property_value), PercentBase))

\* (monthly_debt / monthly_income) * 100
calculate_debt_to_income(monthly_income, monthly_debt) ==
    IF monthly_income = 0
    THEN Raise("ZeroDivisionError")
    ELSE Val(MulInt(Div(monthly_debt, monthly_income), PercentBase))

\* default_pmi_rate = 0.005
default_pmi_rate == Real(5, 1000)

\* The loan-to-value ratio, in percent, up to which no PMI is charged.
PmiLtvLimit == 80

\* Faulty variant of the PMI test: exactly 80% is charged.
MutPmiExempt(ltv) == ltv < PmiLtvLimit * Scale

\* if ltv <= 80
PmiExempt(ltv) == ltv <= PmiLtvLimit * Scale

calculate_pmi(loan_amount, property_value) ==
    LET ltv == calculate_loan_to_value(loan_amount, property_value)
    IN  IF ltv.tag = "raise"
        THEN ltv
        ELSE IF PmiExempt(ltv.v)
             THEN Val(0)
             ELSE Val(Mul(loan_amount, default_pmi_rate))

\* max_dti = 0.43
max_dti == Real(43, 100)

\* Defaults of calculate_affordability: property_tax_rate=0.0125,
\* insurance_rate=0.0035.
default_property_tax_rate == Real(125, 10000)

default_insurance_rate == Real(35, 10000)

\* Faulty variant: a negative budget is clamped to 0.
MutAffordabilityMaxPI(monthly_income, monthly_debts, property_tax_rate, insurance_rate) ==
    LET max_piti               == Mul(monthly_income, max_dti) - monthly_debts
        monthly_tax_rate       == DivInt(property_tax_rate, PaymentsPerYear)
        monthly_insurance_rate == DivInt(insurance_rate, PaymentsPerYear)
    IN  IF max_piti < 0
        THEN 0
        ELSE Div(max_piti, One + monthly_tax_rate + monthly_insurance_rate)

\* max_pi of calculate_affordability: the budget for principal and interest.
AffordabilityMaxPI(monthly_income, monthly_debts, property_tax_rate, insurance_rate) ==
    LET max_piti               == Mul(monthly_income, max_dti) - monthly_debts
        monthly_tax_rate       == DivInt(property_tax_rate, PaymentsPerYear)
        monthly_insurance_rate == DivInt(insurance_rate, PaymentsPerYear)
    IN  Div(max_piti, One + monthly_tax_rate + monthly_insurance_rate)

\* Faulty variant of the annuity inversion: the discount factor is taken
\* with a positive exponent.
MutAffordabilityMaxLoan(max_pi, annual_interest_rate, term_years) ==
    LET monthly_rate == MonthlyRate(annual_interest_rate)
        num_payments == NumPayments(term_years)
    IN  IF monthly_rate = 0
        THEN MulInt(max_pi, num_payments)
        ELSE Mul(max_pi, Div(One - Pow(One + monthly_rate, num_payments), monthly_rate))

\* max_loan of calculate_affordability.
AffordabilityMaxLoan(max_pi, annual_interest_rate, term_years) ==
    LET monthly_rate == MonthlyRate(annual_interest_rate)
        num_payments == NumPayments(term_years)
    IN  IF monthly_rate = 0
        THEN MulInt(max_pi, num_payments)
        ELSE Mul(max_pi, Div(One - Pow(One + monthly_rate, -num_payments), monthly_rate))

calculate_affordability(monthly_income, monthly_debts, down_payment, annual_interest_rate, term_years, property_tax_rate, insurance_rate) ==
    LET max_pi   == AffordabilityMaxPI(monthly_income, monthly_debts,
                                       property_tax_rate, insurance_rate)
        max_loan == AffordabilityMaxLoan(max_pi, annual_interest_rate, term_years)
    IN  Val(max_loan + down_payment)

\* A float that is finite, and float('inf').
Finite(x) == [kind |-> "float", inf |-> FALSE, v |-> x]

Infinity == [kind |-> "float", inf |-> TRUE, v |-> 0]

\* Faulty variant: the new payment is computed on another principal (the
\* balance plus the closing costs).
MutRefinanceNewPayment(current_principal, new_rate, new_term, closing_costs) ==
    calculate_monthly_payment(current_principal + closing_costs, new_rate, new_term)

\* new_payment of calculate_refinance_savings.
RefinanceNewPayment(current_principal, new_rate, new_term, closing_costs) ==
    calculate_monthly_payment(current_principal, new_rate, new_term)

calculate_refinance_savings(current_principal, current_rate, current_term_remaining, new_rate, new_term, closing_costs) ==
    LET current_payment == calculate_monthly_payment(current_principal, current_rate,
                                                     current_term_remaining)
        new_payment     == RefinanceNewPayment(current_principal, new_rate, new_term,
                                               closing_costs)
        current_total   == MulInt(MulInt(current_payment.v, current_term_remaining),
                                  PaymentsPerYear)
        new_total       == MulInt(MulInt(new_payment.v, new_term), PaymentsPerYear)
        monthly_savings == current_payment.v - new_payment.v
    IN  IF current_payment.tag = "raise"
        THEN current_payment
        ELSE IF new_payment.tag = "raise"
        THEN new_payment
        ELSE Val([current_payment   |-> current_payment.v,
                  new_payment       |-> new_payment.v,
                  monthly_savings   |-> monthly_savings,
                  lifetime_savings  |-> current_total - new_total - closing_costs,
                  break_even_months |-> IF monthly_savings > 0
                                        THEN Finite(Div(closing_costs, monthly_savings))
                                        ELSE Infinity])

\* None, the value of an optional float that is not set and of a metric
\* that does not apply (a set float is Finite(x)).
None == [kind |-> "None", inf |-> FALSE, v |-> 0]

\* calculate_break_even_point of mortgage_calculator.
calculate_break_even_point(points_cost, monthly_savings) ==
    IF monthly_savings <= 0
    THEN Val(None)
    ELSE Val(Finite(Div(points_cost, monthly_savings)))

\* The loop of generate_amortization_schedule, run to its end.
RECURSIVE ScheduleLoop(_, _, _, _, _, _)
ScheduleLoop(sched, n, total, payment, rate, balance) ==
    IF LoopHasNext(n, total)
    THEN LET rec == LoopBody(n + 1, total, payment, rate, balance)
         IN  ScheduleLoop(Append(sched, rec), n + 1, total, payment, rate,
                          rec.remaining_balance)
    ELSE sched

generate_amortization_schedule(principal, annual_interest_rate, term_years) ==
    LET payment == calculate_monthly_payment(principal, annual_interest_rate, term_years)
    IN  IF payment.tag = "raise"
        THEN payment
        ELSE Val(ScheduleLoop(<<>>, 0, NumPayments(term_years), payment.v,
                              MonthlyRate(annual_interest_rate), principal))

\* The end of calculate_equity_buildup: the down payment plus the principal
\* paid until the payment min(years * 12, len(schedule)).
BuildupFromSchedule(principal, down_payment, years, sched) ==
    IF sched.tag = "raise"
    THEN sched
    ELSE IF Len(sched.v) = 0
    THEN Raise("IndexError")
    ELSE Val(down_payment
             + (principal
                - sched.v[IF years * PaymentsPerYear < Len(sched.v)
                          THEN years * PaymentsPerYear
                          ELSE Len(sched.v)].remaining_balance))

calculate_equity_buildup(principal, annual_interest_rate, term_years, years, property_value, down_payment) ==
    IF years <= 0
    THEN Val(down_payment)
    ELSE IF years > term_years
    THEN Val(property_value)
    ELSE BuildupFromSchedule(principal, down_payment, years,
             generate_amortization_schedule(principal, annual_interest_rate, term_years))

\* ----------------------------------------------------------- MortgageScenario

\* MortgageScenario.__init__: property_value and reduced_rate are None or
\* Finite(x); a property value that is not given is loan_amount + down_payment.
MortgageScenario(name, loan_amount, interest_rate, term_years, down_payment, property_value, points_paid, reduced_rate) ==
    [name           |-> name,
     loan_amount    |-> loan_amount,
     interest_rate  |-> interest_rate,
     term_years     |-> term_years,
     down_payment   |-> down_payment,
     property_value |-> IF property_value = None
                        THEN loan_amount + down_payment
                        ELSE property_value.v,
     points_paid    |-> points_paid,
     reduced_rate   |-> reduced_rate]

\* Faulty variant: the reduced rate is ignored.
MutEffectiveRate(self) == self.interest_rate

\* rate = self.reduced_rate if self.reduced_rate is not None else self.interest_rate
EffectiveRate(self) ==
    IF self.reduced_rate # None THEN self.reduced_rate.v ELSE self.interest_rate

MortgageScenario_calculate_monthly_payment(self) ==
    calculate_monthly_payment(self.loan_amount, EffectiveRate(self), self.term_years)

MortgageScenario_calculate_total_interest(self) ==
    calculate_total_interest(self.loan_amount, EffectiveRate(self), self.term_years)

\* points_cost = (self.points_paid / 100) * self.loan_amount
PointsCost(self) == Mul(DivInt(self.points_paid, PercentBase), self.loan_amount)

\* return self.loan_amount + total_interest + points_cost
TotalCostFrom(self, total_interest) ==
    IF total_interest.tag = "raise"
    THEN total_interest
    ELSE Val(self.loan_amount + total_interest.v + PointsCost(self))

MortgageScenario_calculate_total_cost(self) ==
    TotalCostFrom(self, MortgageScenario_calculate_total_interest(self))

\* Faulty variant: the loan counts as paid off in the last year of the term.
MutEquityPaidOff(year, term_years) == year >= term_years

\* The test that the loan is paid off in calculate_equity_at_year.
EquityPaidOff(year, term_years) == year > term_years

\* payment_index = min(year * payments_per_year, len(schedule)) - 1, counted
\* from 1 here.
PaymentIndex(year, length) ==
    IF year * PaymentsPerYear < length THEN year * PaymentsPerYear ELSE length

\* The equity read from the schedule: the down payment plus the principal
\* paid until the payment of the index.
EquityFromSchedule(self, year, sched) ==
    IF sched.tag = "raise"
    THEN sched
    ELSE IF Len(sched.v) = 0
    THEN Raise("IndexError")
    ELSE Val(self.down_payment
             + (self.loan_amount
                - sched.v[PaymentIndex(year, Len(sched.v))].remaining_balance))

MortgageScenario_calculate_equity_at_year(self, year) ==
    IF year <= 0
    THEN Val(self.down_payment)
    ELSE IF EquityPaidOff(year, self.term_years)
    THEN Val(self.property_value)
    ELSE EquityFromSchedule(self, year,
             generate_amortization_schedule(self.loan_amount, EffectiveRate(self),
                                            self.term_years))

\* Faulty variant: the points paid are not looked at.
MutBreakEvenNotApplicable(self) ==
    \/ self.reduced_rate = None
    \/ self.reduced_rate.v >= self.interest_rate

\* The first test of MortgageScenario.calculate_break_even_point.
BreakEvenNotApplicable(self) ==
    \/ self.points_paid = 0
    \/ self.reduced_rate = None
    \/ self.reduced_rate.v >= self.interest_rate

\* The break-even point from the two payments: None without monthly savings.
BreakEvenFromPayments(self, with_points, without_points) ==
    IF with_points.tag = "raise"
    THEN with_points
    ELSE IF without_points.tag = "raise"
    THEN without_points
    ELSE IF without_points.v - with_points.v <= 0
    THEN Val(None)
    ELSE Val(Finite(Div(PointsCost(self), without_points.v - with_points.v)))

MortgageScenario_calculate_break_even_point(self) ==
    IF BreakEvenNotApplicable(self)
    THEN Val(None)
    ELSE BreakEvenFromPayments(self,
             calculate_monthly_payment(self.loan_amount, self.reduced_rate.v,
                                       self.term_years),
             calculate_monthly_payment(self.loan_amount, self.interest_rate,
                                       self.term_years))

\* ------------------------------------------------------------- serialization

\* The object after __init__: the fields and self.creation_date, the time of
\* the construction.
CreatedAt(scenario, now) ==
    [name           |-> scenario.name,
     loan_amount    |-> scenario.loan_amount,
     interest_rate  |-> scenario.interest_rate,
     term_years     |-> scenario.term_years,
     down_payment   |-> scenario.down_payment,
     property_value |-> scenario.property_value,
     points_paid    |-> scenario.points_paid,
     reduced_rate   |-> scenario.reduced_rate,
     creation_date  |-> now]

\* MortgageScenario.to_dict; an optional float of the dictionary is None or
\* Finite(x).
to_dict(self) ==
    [name           |-> self.name,
     loan_amount    |-> self.loan_amount,
     interest_rate  |-> self.interest_rate,
     term_years     |-> self.term_years,
     down_payment   |-> self.down_payment,
     property_value |-> Finite(self.property_value),
     points_paid    |-> self.points_paid,
     reduced_rate   |-> self.reduced_rate,
     creation_date  |-> self.creation_date]

\* data.get(key, default)
Get(data, key, default) == IF key \in DOMAIN data THEN data[key] ELSE default

\* The keys from_dict reads with data[...].
RequiredKeys == {"name", "loan_amount", "interest_rate", "term_years"}

\* Faulty variant: the creation date of the dictionary is not taken over.
MutFromDict(data, now) ==
    IF ~(RequiredKeys \subseteq DOMAIN data)
    THEN Raise("KeyError")
    ELSE Val(CreatedAt(MortgageScenario(data.name, data.loan_amount, data.interest_rate,
                           data.term_years, Get(data, "down_payment", 0),
                           Get(data, "property_value", None),
                           Get(data, "points_paid", 0),
                           Get(data, "reduced_rate", None)),
                       now))

\* MortgageScenario.from_dict, called at the time now.
from_dict(data, now) ==
    IF ~(RequiredKeys \subseteq DOMAIN data)
    THEN Raise("KeyError")
    ELSE Val(CreatedAt(MortgageScenario(data.name, data.loan_amount, data.interest_rate,
                           data.term_years, Get(data, "down_payment", 0),
                           Get(data, "property_value", None),
                           Get(data, "points_paid", 0),
                           Get(data, "reduced_rate", None)),
                       Get(data, "creation_date", now)))

\* ---------------------------------------------------------- compare_scenarios

\* The years of the three equity columns.
EquityYear1 == 5

EquityYear2 == 10

EquityYear3 == 15

\* The dictionary compare_scenarios starts from.
EmptyComparison ==
    [scenarios |-> <<>>,
     metrics   |-> [monthly_payment  |-> <<>>,
                    total_interest   |-> <<>>,
                    total_cost       |-> <<>>,
                    equity_5yr       |-> <<>>,
                    equity_10yr      |-> <<>>,
                    equity_15yr      |-> <<>>,
                    break_even_point |-> <<>>]]

\* Faulty variant: the test for an empty list is missing and the empty
\* dictionary of metrics comes back.
MutErrorComparison == EmptyComparison

\* What compare_scenarios returns for an empty list.
ErrorComparison == [error |-> "No scenarios provided"]

\* The seven calls of one iteration, in the order of the code.
ScenarioMetrics(scenario) ==
    << MortgageScenario_calculate_monthly_payment(scenario),
       MortgageScenario_calculate_total_interest(scenario),
       MortgageScenario_calculate_total_cost(scenario),
       MortgageScenario_calculate_equity_at_year(scenario, EquityYear1),
       MortgageScenario_calculate_equity_at_year(scenario, EquityYear2),
       MortgageScenario_calculate_equity_at_year(scenario, EquityYear3),
       MortgageScenario_calculate_break_even_point(scenario) >>

\* The calls of ScenarioMetrics that raise.
RaisingMetrics(m) == {k \in DOMAIN m : m[k].tag = "raise"}

FirstRaise(m) == m[CHOOSE k \in RaisingMetrics(m) : \A j \in RaisingMetrics(m) : k <= j]

\* Faulty variant: the columns are put in front (the order is reversed).
MutAppendColumnPrepend(comparison, name, m) ==
    IF RaisingMetrics(m) # {}
    THEN FirstRaise(m)
    ELSE Val([scenarios |-> <<name>> \o comparison.scenarios,
              metrics   |->
                [monthly_payment  |-> <<m[1].v>> \o comparison.metrics.monthly_payment,
                 total_interest   |-> <<m[2].v>> \o comparison.metrics.total_interest,
                 total_cost       |-> <<m[3].v>> \o comparison.metrics.total_cost,
                 equity_5yr       |-> <<m[4].v>> \o comparison.metrics.equity_5yr,
                 equity_10yr      |-> <<m[5].v>> \o comparison.metrics.equity_10yr,
                 equity_15yr      |-> <<m[6].v>> \o comparison.metrics.equity_15yr,
                 break_even_point |-> <<m[7].v>> \o comparison.metrics.break_even_point]])

\* Faulty variant: a scenario whose metrics raise is skipped.
MutAppendColumnSkip(comparison, name, m) ==
    IF RaisingMetrics(m) # {}
    THEN Val(comparison)
    ELSE Val([scenarios |-> Append(comparison.scenarios, name),
              metrics   |->
                [monthly_payment  |-> Append(comparison.metrics.monthly_payment, m[1].v),
                 total_interest   |-> Append(comparison.metrics.total_interest, m[2].v),
                 total_cost       |-> Append(comparison.metrics.total_cost, m[3].v),
                 equity_5yr       |-> Append(comparison.metrics.equity_5yr, m[4].v),
                 equity_10yr      |-> Append(comparison.metrics.equity_10yr, m[5].v),
                 equity_15yr      |-> Append(comparison.metrics.equity_15yr, m[6].v),
                 break_even_point |-> Append(comparison.metrics.break_even_point, m[7].v)]])

\* The name and the seven metrics m of a scenario are appended to the
\* dictionary; an exception of a metric leaves the function.
AppendColumn(comparison, name, m) ==
    IF RaisingMetrics(m) # {}
    THEN FirstRaise(m)
    ELSE Val([scenarios |-> Append(comparison.scenarios, name),
              metrics   |->
                [monthly_payment  |-> Append(comparison.metrics.monthly_payment, m[1].v),
                 total_interest   |-> Append(comparison.metrics.total_interest, m[2].v),
                 total_cost       |-> Append(comparison.metrics.total_cost, m[3].v),
                 equity_5yr       |-> Append(comparison.metrics.equity_5yr, m[4].v),
                 equity_10yr      |-> Append(comparison.metrics.equity_10yr, m[5].v),
                 equity_15yr      |-> Append(comparison.metrics.equity_15yr, m[6].v),
                 break_even_point |-> Append(comparison.metrics.break_even_point, m[7].v)]])

\* One iteration of the loop of compare_scenarios.
CompareBody(comparison, scenario) ==
    AppendColumn(comparison, scenario.name, ScenarioMetrics(scenario))

\* Faulty variant: the function consumes its argument.
MutCompareInputAfter(list) == IF list = <<>> THEN list ELSE Tail(list)

\* The caller's list after compare_scenarios: the function only iterates
\* over it and reads the scenarios' fields.
CompareInputAfter(list) == list

\* -------------------------------------------------- generate_comparison_table

\* A cell that is a string as it stands.
Text(s) == [cell |-> "text", text |-> s]

\* f"${x:.2f}": the amount rounded to cents.
Money(x) == [cell |-> "$.2f", cents |-> Sgn(x) * ((Abs(x) + (Scale \div PercentBase) \div 2) \div (Scale \div PercentBase))]

\* f"{years}y {months}m" with years = int(point / 12), months = int(point % 12);
\* int truncates toward zero and % takes the sign of 12.
YearsMonths(point) ==
    [cell   |-> "y m",
     years  |-> Sgn(point) * (Abs(point) \div (PaymentsPerYear * Scale)),
     months |-> (point % (PaymentsPerYear * Scale)) \div Scale]

\* Faulty variant: a missing break-even point is formatted like a number.
MutBreakEvenCell(point) == YearsMonths(point.v)

\* One cell of the break-even row.
BreakEvenCell(point) ==
    IF point = None THEN Text("N/A") ELSE YearsMonths(point.v)

\* [label] + [cell(x) for x in column]
MoneyRow(label, column) ==
    <<Text(label)>> \o [i \in 1 .. Len(column) |-> Money(column[i])]

generate_comparison_table(comparison_data) ==
    IF "error" \in DOMAIN comparison_data
    THEN <<  <<Text("Error"), Text(comparison_data.error)>>  >>
    ELSE << <<Text("Metric")>> \o [i \in 1 .. Len(comparison_data.scenarios) |-> Text(comparison_data.scenarios[i])],
            MoneyRow("Monthly Payment", comparison_data.metrics.monthly_payment),
            MoneyRow("Total Interest", comparison_data.metrics.total_interest),
            MoneyRow("Total Cost", comparison_data.metrics.total_cost),
            MoneyRow("Equity (5 years)", comparison_data.metrics.equity_5yr),
            MoneyRow("Equity (10 years)", comparison_data.metrics.equity_10yr),
            MoneyRow("Equity (15 years)", comparison_data.metrics.equity_15yr),
            <<Text("Break-even Point")>> \o [i \in 1 .. Len(comparison_data.metrics.break_even_point) |-> BreakEvenCell(comparison_data.metrics.break_even_point[i])] >>

\* ------------------------------------------------------------ loan applications

\* bcrypt: the hash of a password, and the empty string of an unset variable.
NoHash == [set |-> FALSE, of |-> ""]

Hash(password) == [set |-> TRUE, of |-> password]

\* MortgageSecurity._verify_password
verify_password(password, hashed) == hashed = Hash(password)

\* MortgageSecurity.__init__: the admin hash is the one of the environment
\* or, when that is empty, the hash of ADMIN_PASSWORD when it is set.
MortgageSecurity(env, users) ==
    [api_key             |-> env.API_KEY,
     admin_password_hash |-> IF ~env.ADMIN_PASSWORD_HASH.set /\ env.ADMIN_PASSWORD # ""
                             THEN Hash(env.ADMIN_PASSWORD)
                             ELSE env.ADMIN_PASSWORD_HASH,
     users               |-> users]

\* MortgageSecurity.authenticate_user, for users with a hashed password.
authenticate_user(self, username, password) ==
    /\ username \in DOMAIN self.users
    /\ verify_password(password, self.users[username].password_hash)

\* The credit score of the mock response, and the lowest score accepted.
MockCreditScore == 720

CreditScoreFloor == 620

\* The loan may be at most this many times the income.
IncomeMultiple == 5

NoReport == [none |-> TRUE]

\* MortgageSecurity.get_credit_report
get_credit_report(self, username) ==
    IF username \notin DOMAIN self.users
    THEN NoReport
    ELSE IF self.api_key = ""
    THEN [error |-> "API key not configured"]
    ELSE [credit_score |-> MockCreditScore]

\* MortgageSecurity.admin_function, for the action "verify".
admin_function(self, password, action) ==
    IF ~self.admin_password_hash.set
    THEN [error |-> "Admin password not configured"]
    ELSE IF ~verify_password(password, self.admin_password_hash)
    THEN [error |-> "Unauthorized"]
    ELSE IF action = "verify"
    THEN [success |-> TRUE]
    ELSE [error |-> "Invalid action"]

\* The test of update_application_status: the owner with their password, or
\* anyone else with the admin password.
UpdateAllowed(application, security, username, password) ==
    IF application.username # username
    THEN "error" \notin DOMAIN admin_function(security, password, "verify")
    ELSE authenticate_user(security, username, password)

\* LoanApplication.update_application_status: the applications afterwards and
\* the value returned.
update_application_status(applications, security, application_id, new_status, username, password) ==
    IF application_id \notin DOMAIN applications
    THEN [applications |-> applications, ok |-> FALSE]
    ELSE IF ~UpdateAllowed(applications[application_id], security, username, password)
    THEN [applications |-> applications, ok |-> FALSE]
    ELSE [applications |-> [applications EXCEPT ![application_id].status = new_status,
                                                ![application_id].updated_at = "set"],
          ok           |-> TRUE]

\* What process_application leaves and returns: the value returned by
\* update_application_status is not looked at.
Processed(update, success, message) ==
    [applications |-> update.applications, success |-> success, message |-> message]

\* process_application from the credit report on.
ProcessWithReport(applications, security, password, application_id, credit_report) ==
    IF credit_report = NoReport \/ "error" \in DOMAIN credit_report
    THEN [applications |-> applications, success |-> FALSE,
          message |-> "Failed to retrieve credit report"]
    ELSE IF credit_report.credit_score < CreditScoreFloor
    THEN Processed(update_application_status(applications, security, application_id, "Rejected", "system", password),
                   FALSE, "Credit score too low")
    ELSE IF Get(applications[application_id].data, "loan_amount", 0) > Get(applications[application_id].data, "income", 0) * IncomeMultiple
    THEN Processed(update_application_status(applications, security, application_id, "Rejected", "system", password),
                   FALSE, "Loan amount too high relative to income")
    ELSE Processed(update_application_status(applications, security, application_id, "Approved", "system", password),
                   TRUE, "Application approved")

\* LoanApplication.process_application; password is
\* os.getenv('ADMIN_PASSWORD', '').
process_application(applications, security, password, application_id) ==
    IF application_id \notin DOMAIN applications
    THEN [applications |-> applications, success |-> FALSE,
          message |-> "Application not found"]
    ELSE ProcessWithReport(applications, security, password, application_id,
             get_credit_report(security, applications[application_id].username))

\* LoanApplication.create_application: the applications afterwards and the
\* pair returned; the identifier is the position in the file.
create_application(applications, security, username, password, data) ==
    IF ~authenticate_user(security, username, password)
    THEN [applications |-> applications, success |-> FALSE,
          message |-> "Authentication failed"]
    ELSE [applications |-> Append(applications,
                                  [username |-> username, data |-> data,
                                   status |-> "Pending", updated_at |-> "unset"]),
          success |-> TRUE, message |-> "created"]

\* -------------------------------------------------------------------- state

VARIABLES
    op,                 \* the function called last (or being executed)
    args,               \* its arguments
    ret,                \* its outcome: Val(..), Raise(..), NoOutcome while it runs
    pc,                 \* "menu": between calls; "loop": inside the loop of
                        \* generate_amortization_schedule; "done": a call ended
    monthly_rate,       \* locals of generate_amortization_schedule
    num_payments,
    monthly_payment,
    schedule,
    remaining_balance,
    payment_num,
    scenarios,          \* the list of scenarios of the comparison tool
    comparison,         \* locals of compare_scenarios
    scenario_index,
    env,                \* the environment variables of the process
    users,              \* data/user_data.json
    applications,       \* data/applications.json, in the order of insertion
    results,            \* locals of process_pending_applications
    application_index

frame == <<monthly_rate, num_payments, monthly_payment, schedule,
           remaining_balance, payment_num>>

tool == <<scenarios, comparison, scenario_index>>

apps == <<env, users, applications, results, application_index>>

vars == <<op, args, ret, pc, frame, tool, apps>>

\* ------------------------------------------------------------------- inputs

\* Longest loan term, in years, that is tried.
MaxTermYears == 2

TermSet == -1 .. MaxTermYears

\* Loan amounts, in currency units.
PrincipalSet == {Real(-100, 1), 0, Real(100, 1), Real(250, 1), Real(1000, 1)}

\* Annual rates, in percent.
RateSet == {Real(-6, 1), 0, Real(5, 1), Real(12, 1)}

\* Loan amounts and property values of the ratio functions.
LoanSet == {Real(-90, 1), 0, Real(240, 1), Real(241, 1), Real(270, 1)}

PropertySet == {Real(-100, 1), 0, Real(100, 1), Real(300, 1)}

\* Monthly incomes and debts (in thousands).
IncomeSet == {Real(-1, 1), 0, Real(1, 1), Real(3, 1), Real(10, 1)}

AffordIncomeSet == {Real(1, 1), Real(3, 1), Real(10, 1)}

DebtSet == {0, Real(43, 100), Real(2, 1)}

DownPaymentSet == {0, Real(50, 1)}

\* Rates and amounts of the affordability and refinance calls.
ValidRateSet == {0, Real(5, 1), Real(12, 1)}

RefinancePrincipalSet == {Real(100, 1), Real(1000, 1)}

RefinanceTermSet == 0 .. MaxTermYears

ClosingCostSet == {0, Real(50, 1)}

\* Scenarios: the fields a caller may give to MortgageScenario.
ScenarioLoanSet == {0, Real(1000, 1)}

ScenarioTermSet == 0 .. MaxTermYears

ScenarioPropertySet == {None, Finite(Real(2000, 1))}

PointsSet == {Real(-3, 2), 0, Real(3, 2)}

ReducedRateSet == {None, Finite(0), Finite(Real(5, 1)), Finite(Real(12, 1))}

ScenarioSet ==
    {MortgageScenario("S", loan_amount, interest_rate, term_years, down_payment,
                      property_value, points_paid, reduced_rate) :
        loan_amount \in ScenarioLoanSet, interest_rate \in ValidRateSet,
        term_years \in ScenarioTermSet, down_payment \in DownPaymentSet,
        property_value \in ScenarioPropertySet, points_paid \in PointsSet,
        reduced_rate \in ReducedRateSet}

\* The years at which the equity is asked.
YearSet == -1 .. MaxTermYears + 1

\* Arguments of the helper calculate_break_even_point.
PointsCostSet == {Real(-45, 1), 0, Real(45, 1)}

MonthlySavingsSet == {Real(-1, 1), 0, Real(10, 1)}

\* The scenarios entered in the comparison tool: two of them have the same
\* name, one has a term of 0 years.
ToolScenarioSet ==
    { MortgageScenario("A", Real(1000, 1), Real(12, 1), 2, 0, None, 0, None),
      MortgageScenario("B", Real(1000, 1), Real(12, 1), 1, Real(50, 1),
                       Finite(Real(2000, 1)), Real(3, 2), Finite(Real(5, 1))),
      MortgageScenario("A", Real(250, 1), Real(5, 1), 2, Real(50, 1), None, 0, None),
      MortgageScenario("Z", Real(100, 1), Real(5, 1), 0, 0, None, 0, None) }

\* Property values given to calculate_equity_buildup.
BuildupPropertySet == {0, Real(1050, 1), Real(2000, 1)}

\* The times at which scenarios are constructed and loaded.
TimeSet == {"2024-01-01 10:00:00", "2024-06-30 18:30:00"}

\* The keys of a saved scenario.
DictKeys ==
    {"name", "loan_amount", "interest_rate", "term_years", "down_payment",
     "property_value", "points_paid", "reduced_rate", "creation_date"}

\* The dictionaries from_dict is given: those of the tool's scenarios, whole
\* or with some keys missing.
DictSet ==
    {[k \in keys |-> to_dict(CreatedAt(scenario, now))[k]] :
        keys \in SUBSET DictKeys, scenario \in ToolScenarioSet, now \in TimeSet}

\* Longest list of scenarios that is tried.
MaxScenarios == 2

\* Most applications in the file.
MaxApplications == 2

\* The environment of the process: ADMIN_PASSWORD, ADMIN_PASSWORD_HASH and
\* API_KEY, each set or not.
EnvSet ==
    [ADMIN_PASSWORD      : {"", "admin-pw"},
     ADMIN_PASSWORD_HASH : {NoHash, Hash("admin-pw"), Hash("old-pw")},
     API_KEY             : {"", "key"}]

\* The users of data/user_data.json: alice, and possibly a user that is
\* called system.
UsersSet ==
    {[u \in {"alice"} |-> [password_hash |-> Hash("alice-pw")]],
     [u \in {"alice", "system"} |-> [password_hash |-> Hash(IF u = "alice" THEN "alice-pw" ELSE "admin-pw")]]}

\* The passwords typed when an application is submitted.
PasswordSet == {"alice-pw", "admin-pw", "wrong"}

\* The data of an application: within five times the income, above it, and
\* without an income.
ApplicationDataSet ==
    {[income |-> 1000, loan_amount |-> 4000],
     [income |-> 1000, loan_amount |-> 6000],
     [loan_amount |-> 4000]}

\* No process with an environment is running.
NoEnv == [ADMIN_PASSWORD |-> "", ADMIN_PASSWORD_HASH |-> NoHash, API_KEY |-> ""]

LoanArgs(principal, annual_interest_rate, term_years) ==
    [principal |-> principal, annual_interest_rate |-> annual_interest_rate,
     term_years |-> term_years]

\* The input contract of every loan-shaped call.
ValidLoan(a) == a.principal > 0 /\ a.annual_interest_rate >= 0 /\ a.term_years > 0

\* ------------------------------------------------------------------ actions

\* Faulty variant: the list of records outlives the call (a list of the
\* module instead of a local one).
MutNoFrame ==
    /\ monthly_rate' = 0
    /\ num_payments' = 0
    /\ monthly_payment' = 0
    /\ schedule' = schedule
    /\ remaining_balance' = 0
    /\ payment_num' = 0

NoFrame ==
    /\ monthly_rate' = 0
    /\ num_payments' = 0
    /\ monthly_payment' = 0
    /\ schedule' = <<>>
    /\ remaining_balance' = 0
    /\ payment_num' = 0

Init ==
    /\ op = "none"
    /\ args = <<>>
    /\ ret = NoOutcome
    /\ pc = "menu"
    /\ monthly_rate = 0
    /\ num_payments = 0
    /\ monthly_payment = 0
    /\ schedule = <<>>
    /\ remaining_balance = 0
    /\ payment_num = 0
    /\ scenarios = <<>>
    /\ comparison = EmptyComparison
    /\ scenario_index = 0
    /\ env = NoEnv
    /\ users = <<>>
    /\ applications = <<>>
    /\ results = <<>>
    /\ application_index = 0

CalculateMonthlyPayment ==
    /\ pc = "menu"
    /\ \E principal \in PrincipalSet, rate \in RateSet, term_years \in TermSet :
          /\ op' = "calculate_monthly_payment"
          /\ args' = LoanArgs(principal, rate, term_years)
          /\ ret' = calculate_monthly_payment(principal, rate, term_years)
    /\ pc' = "done"
    /\ UNCHANGED <<frame, tool, apps>>

CalculateTotalInterest ==
    /\ pc = "menu"
    /\ \E principal \in PrincipalSet, rate \in RateSet, term_years \in TermSet :
          /\ op' = "calculate_total_interest"
          /\ args' = LoanArgs(principal, rate, term_years)
          /\ ret' = calculate_total_interest(principal, rate, term_years)
    /\ pc' = "done"
    /\ UNCHANGED <<frame, tool, apps>>

\* generate_amortization_schedule up to its loop: the rate, the number of
\* payments and the payment are computed; a raise in
\* calculate_monthly_payment ends the call.
GenerateScheduleEnter ==
    /\ pc = "menu"
    /\ \E principal \in PrincipalSet, rate \in RateSet, term_years \in TermSet :
          LET payment == calculate_monthly_payment(principal, rate, term_years)
          IN  /\ op' = "generate_amortization_schedule"
              /\ args' = LoanArgs(principal, rate, term_years)
              /\ IF payment.tag = "raise"
                 THEN /\ ret' = payment
                      /\ pc' = "done"
                      /\ NoFrame
                 ELSE /\ ret' = NoOutcome
                      /\ pc' = "loop"
                      /\ monthly_rate' = MonthlyRate(rate)
                      /\ num_payments' = NumPayments(term_years)
                      /\ monthly_payment' = payment.v
                      /\ schedule' = <<>>
                      /\ remaining_balance' = principal
                      /\ payment_num' = 0
    /\ UNCHANGED <<tool, apps>>

\* One iteration of the loop.
GenerateScheduleStep ==
    /\ pc = "loop"
    /\ LoopHasNext(payment_num, num_payments)
    /\ LET rec == LoopBody(payment_num + 1, num_payments, monthly_payment,
                           monthly_rate, remaining_balance)
       IN  /\ payment_num' = payment_num + 1
           /\ remaining_balance' = rec.remaining_balance
           /\ schedule' = Append(schedule, rec)
    /\ UNCHANGED <<op, args, ret, pc, monthly_rate, num_payments, monthly_payment, tool, apps>>

\* The range is exhausted: return schedule.
GenerateScheduleReturn ==
    /\ pc = "loop"
    /\ ~LoopHasNext(payment_num, num_payments)
    /\ ret' = Val(schedule)
    /\ pc' = "done"
    /\ NoFrame
    /\ UNCHANGED <<op, args, tool, apps>>

CalculateLoanToValue ==
    /\ pc = "menu"
    /\ \E loan_amount \in LoanSet, property_value \in PropertySet :
          /\ op' = "calculate_loan_to_value"
          /\ args' = [loan_amount |-> loan_amount, property_value |-> property_value]
          /\ ret' = calculate_loan_to_value(loan_amount, property_value)
    /\ pc' = "done"
    /\ UNCHANGED <<frame, tool, apps>>

CalculateDebtToIncome ==
    /\ pc = "menu"
    /\ \E monthly_income \in IncomeSet, monthly_debt \in DebtSet :
          /\ op' = "calculate_debt_to_income"
          /\ args' = [monthly_income |-> monthly_income, monthly_debt |-> monthly_debt]
          /\ ret' = calculate_debt_to_income(monthly_income, monthly_debt)
    /\ pc' = "done"
    /\ UNCHANGED <<frame, tool, apps>>

CalculatePmi ==
    /\ pc = "menu"
    /\ \E loan_amount \in LoanSet, property_value \in PropertySet :
          /\ op' = "calculate_pmi"
          /\ args' = [loan_amount |-> loan_amount, property_value |-> property_value]
          /\ ret' = calculate_pmi(loan_amount, property_value)
    /\ pc' = "done"
    /\ UNCHANGED <<frame, tool, apps>>

\* calculate_affordability, called as app.py calls it: with the default tax
\* and insurance rates.
CalculateAffordability ==
    /\ pc = "menu"
    /\ \E monthly_income \in AffordIncomeSet, monthly_debts \in DebtSet,
       down_payment \in DownPaymentSet, rate \in ValidRateSet, term_years \in TermSet :
          /\ op' = "calculate_affordability"
          /\ args' = [monthly_income |-> monthly_income, monthly_debts |-> monthly_debts,
                    down_payment |-> down_payment, annual_interest_rate |-> rate,
                    term_years |-> term_years]
          /\ ret' = calculate_affordability(monthly_income, monthly_debts, down_payment,
                     rate, term_years, default_property_tax_rate,
                     default_insurance_rate)
    /\ pc' = "done"
    /\ UNCHANGED <<frame, tool, apps>>

CalculateRefinanceSavings ==
    /\ pc = "menu"
    /\ \E current_principal \in RefinancePrincipalSet,
       current_rate \in ValidRateSet, current_term_remaining \in RefinanceTermSet,
       new_rate \in ValidRateSet, new_term \in RefinanceTermSet,
       closing_costs \in ClosingCostSet :
          /\ op' = "calculate_refinance_savings"
          /\ args' = [current_principal |-> current_principal, current_rate |-> current_rate,
                    current_term_remaining |-> current_term_remaining,
                    new_rate |-> new_rate, new_term |-> new_term,
                    closing_costs |-> closing_costs]
          /\ ret' = calculate_refinance_savings(current_principal, current_rate,
                     current_term_remaining, new_rate, new_term,
                     closing_costs)
    /\ pc' = "done"
    /\ UNCHANGED <<frame, tool, apps>>

\* ------------------------------------------------- actions: MortgageScenario

ScenarioMonthlyPayment ==
    /\ pc = "menu"
    /\ \E self \in ScenarioSet :
          /\ op' = "MortgageScenario.calculate_monthly_payment"
          /\ args' = [self |-> self]
          /\ ret' = MortgageScenario_calculate_monthly_payment(self)
    /\ pc' = "done"
    /\ UNCHANGED <<frame, tool, apps>>

ScenarioTotalInterest ==
    /\ pc = "menu"
    /\ \E self \in ScenarioSet :
          /\ op' = "MortgageScenario.calculate_total_interest"
          /\ args' = [self |-> self]
          /\ ret' = MortgageScenario_calculate_total_interest(self)
    /\ pc' = "done"
    /\ UNCHANGED <<frame, tool, apps>>

ScenarioTotalCost ==
    /\ pc = "menu"
    /\ \E self \in ScenarioSet :
          /\ op' = "MortgageScenario.calculate_total_cost"
          /\ args' = [self |-> self]
          /\ ret' = MortgageScenario_calculate_total_cost(self)
    /\ pc' = "done"
    /\ UNCHANGED <<frame, tool, apps>>

ScenarioEquityAtYear ==
    /\ pc = "menu"
    /\ \E self \in ScenarioSet, year \in YearSet :
          /\ op' = "MortgageScenario.calculate_equity_at_year"
          /\ args' = [self |-> self, year |-> year]
          /\ ret' = MortgageScenario_calculate_equity_at_year(self, year)
    /\ pc' = "done"
    /\ UNCHANGED <<frame, tool, apps>>

ScenarioBreakEvenPoint ==
    /\ pc = "menu"
    /\ \E self \in ScenarioSet :
          /\ op' = "MortgageScenario.calculate_break_even_point"
          /\ args' = [self |-> self]
          /\ ret' = MortgageScenario_calculate_break_even_point(self)
    /\ pc' = "done"
    /\ UNCHANGED <<frame, tool, apps>>

CalculateBreakEvenPoint ==
    /\ pc = "menu"
    /\ \E points_cost \in PointsCostSet, monthly_savings \in MonthlySavingsSet :
          /\ op' = "calculate_break_even_point"
          /\ args' = [points_cost |-> points_cost, monthly_savings |-> monthly_savings]
          /\ ret' = calculate_break_even_point(points_cost, monthly_savings)
    /\ pc' = "done"
    /\ UNCHANGED <<frame, tool, apps>>

CalculateEquityBuildup ==
    /\ pc = "menu"
    /\ \E principal \in ScenarioLoanSet, rate \in ValidRateSet, term_years \in TermSet, years \in YearSet, property_value \in BuildupPropertySet, down_payment \in DownPaymentSet :
          /\ op' = "calculate_equity_buildup"
          /\ args' = [principal |-> principal, annual_interest_rate |-> rate,
                      term_years |-> term_years, years |-> years,
                      property_value |-> property_value,
                      down_payment |-> down_payment]
          /\ ret' = calculate_equity_buildup(principal, rate, term_years, years,
                                             property_value, down_payment)
    /\ pc' = "done"
    /\ UNCHANGED <<frame, tool, apps>>

\* ---------------------------------------------------- actions: serialization

\* A scenario constructed at one time is turned into a dictionary and a
\* scenario is made from the dictionary at another time.
ScenarioRoundTrip ==
    /\ pc = "menu"
    /\ \E scenario \in ScenarioSet, created \in TimeSet, loaded \in TimeSet :
          /\ op' = "from_dict(to_dict)"
          /\ args' = [self |-> CreatedAt(scenario, created), now |-> loaded]
          /\ ret' = from_dict(to_dict(CreatedAt(scenario, created)), loaded)
    /\ pc' = "done"
    /\ UNCHANGED <<frame, tool, apps>>

ScenarioFromDict ==
    /\ pc = "menu"
    /\ \E data \in DictSet, now \in TimeSet :
          /\ op' = "MortgageScenario.from_dict"
          /\ args' = [data |-> data, now |-> now]
          /\ ret' = from_dict(data, now)
    /\ pc' = "done"
    /\ UNCHANGED <<frame, tool, apps>>

\* ------------------------------------------------- actions: comparison tool

\* mortgage_comparison_tool is entered: scenarios = [].
EnterComparisonTool ==
    /\ pc = "menu"
    /\ pc' = "tool"
    /\ scenarios' = <<>>
    /\ UNCHANGED <<op, args, ret, frame, comparison, scenario_index, apps>>

\* Choice 7: the tool returns and its list is dropped.
LeaveComparisonTool ==
    /\ pc = "tool"
    /\ pc' = "menu"
    /\ scenarios' = <<>>
    /\ UNCHANGED <<op, args, ret, frame, comparison, scenario_index, apps>>

\* Choices 1 and 2: a scenario is appended to the list (also while a caller
\* holds the result of an earlier comparison).
AddScenario ==
    /\ pc \in {"tool", "compared"}
    /\ Len(scenarios) < MaxScenarios
    /\ \E scenario \in ToolScenarioSet : scenarios' = Append(scenarios, scenario)
    /\ UNCHANGED <<op, args, ret, pc, frame, comparison, scenario_index, apps>>

\* The owner of the list removes one of its elements.
RemoveScenario ==
    /\ pc \in {"tool", "compared"}
    /\ \E i \in 1 .. Len(scenarios) :
          scenarios' = SubSeq(scenarios, 1, i - 1) \o SubSeq(scenarios, i + 1, Len(scenarios))
    /\ UNCHANGED <<op, args, ret, pc, frame, comparison, scenario_index, apps>>

\* The owner of the list reorders it.
ReverseScenarios ==
    /\ pc \in {"tool", "compared"}
    /\ Len(scenarios) > 1
    /\ scenarios' = [i \in 1 .. Len(scenarios) |-> scenarios[Len(scenarios) + 1 - i]]
    /\ UNCHANGED <<op, args, ret, pc, frame, comparison, scenario_index, apps>>

\* compare_scenarios(scenarios) up to its loop: an empty list returns the
\* error dictionary.
CompareEnter ==
    /\ pc = "tool"
    /\ op' = "compare_scenarios"
    /\ args' = [scenarios |-> scenarios]
    /\ IF scenarios = <<>>
       THEN /\ ret' = Val(ErrorComparison)
            /\ pc' = "compared"
       ELSE /\ ret' = NoOutcome
            /\ pc' = "compare"
    /\ comparison' = EmptyComparison
    /\ scenario_index' = 0
    /\ UNCHANGED <<frame, scenarios, apps>>

\* One iteration of the loop; an exception ends the call and the local
\* dictionary is lost.
CompareStep ==
    /\ pc = "compare"
    /\ scenario_index < Len(scenarios)
    /\ \E out \in {CompareBody(comparison, scenarios[scenario_index + 1])} :
           IF out.tag = "raise"
           THEN /\ ret' = out
                /\ pc' = "compared"
                /\ comparison' = EmptyComparison
                /\ scenario_index' = 0
                /\ scenarios' = CompareInputAfter(scenarios)
           ELSE /\ comparison' = out.v
                /\ scenario_index' = scenario_index + 1
                /\ UNCHANGED <<ret, pc, scenarios>>
    /\ UNCHANGED <<op, args, frame, apps>>

\* The list is exhausted: return comparison.
CompareReturn ==
    /\ pc = "compare"
    /\ scenario_index >= Len(scenarios)
    /\ ret' = Val(comparison)
    /\ pc' = "compared"
    /\ comparison' = EmptyComparison
    /\ scenario_index' = 0
    /\ scenarios' = CompareInputAfter(scenarios)
    /\ UNCHANGED <<op, args, frame, apps>>

\* compare_mortgage_scenarios: the table is made from the returned dictionary.
GenerateComparisonTable ==
    /\ pc = "compared"
    /\ ret.tag = "value"
    /\ op' = "generate_comparison_table"
    /\ args' = [comparison_data |-> ret.v]
    /\ ret' = Val(generate_comparison_table(ret.v))
    /\ pc' = "tabled"
    /\ UNCHANGED <<frame, tool, apps>>

\* The caller is done with the result of compare_scenarios.
ReturnToTool ==
    /\ pc \in {"compared", "tabled"}
    /\ op' = "none"
    /\ args' = <<>>
    /\ ret' = NoOutcome
    /\ pc' = "tool"
    /\ UNCHANGED <<frame, tool, apps>>

\* ----------------------------------------------- actions: loan applications

\* A process starts with some environment and users; there are no
\* applications in the file yet.
OpenLoanApplications ==
    /\ pc = "menu"
    /\ pc' = "apps"
    /\ env' \in EnvSet
    /\ users' \in UsersSet
    /\ applications' = <<>>
    /\ UNCHANGED <<op, args, ret, frame, tool, results, application_index>>

CloseLoanApplications ==
    /\ pc = "apps"
    /\ pc' = "menu"
    /\ env' = NoEnv
    /\ users' = <<>>
    /\ applications' = <<>>
    /\ op' = "none"
    /\ args' = <<>>
    /\ ret' = NoOutcome
    /\ UNCHANGED <<frame, tool, results, application_index>>

\* submit_loan_application(username, password, application_data)
SubmitLoanApplication ==
    /\ pc = "apps"
    /\ Len(applications) < MaxApplications
    /\ \E username \in {"alice", "system"}, password \in PasswordSet, data \in ApplicationDataSet :
         \E out \in {create_application(applications, MortgageSecurity(env, users), username, password, data)} :
             /\ op' = "submit_loan_application"
             /\ args' = [username |-> username, data |-> data]
             /\ ret' = Val([success |-> out.success, message |-> out.message])
             /\ applications' = out.applications
    /\ UNCHANGED <<pc, frame, tool, env, users, results, application_index>>

\* process_pending_applications up to its loop.
ProcessPendingEnter ==
    /\ pc = "apps"
    /\ pc' = "processing"
    /\ op' = "process_pending_applications"
    /\ args' = <<>>
    /\ ret' = NoOutcome
    /\ results' = <<>>
    /\ application_index' = 0
    /\ UNCHANGED <<frame, tool, env, users, applications>>

\* One iteration: an application that is Pending is processed and its result
\* is appended.
ProcessPendingStep ==
    /\ pc = "processing"
    /\ application_index < Len(applications)
    /\ application_index' = application_index + 1
    /\ IF applications[application_index + 1].status = "Pending"
       THEN \E out \in {process_application(applications, MortgageSecurity(env, users), env.ADMIN_PASSWORD, application_index + 1)} :
               /\ applications' = out.applications
               /\ results' = Append(results, [application_id |-> application_index + 1,
                                              success |-> out.success,
                                              message |-> out.message])
       ELSE UNCHANGED <<applications, results>>
    /\ UNCHANGED <<op, args, ret, pc, frame, tool, env, users>>

\* return results
ProcessPendingReturn ==
    /\ pc = "processing"
    /\ application_index >= Len(applications)
    /\ pc' = "processed"
    /\ ret' = Val(results)
    /\ results' = <<>>
    /\ application_index' = 0
    /\ UNCHANGED <<op, args, frame, tool, env, users, applications>>

\* The caller is done with the results.
ResultsSeen ==
    /\ pc = "processed"
    /\ pc' = "apps"
    /\ op' = "none"
    /\ args' = <<>>
    /\ ret' = NoOutcome
    /\ UNCHANGED <<frame, tool, apps>>

\* The result is shown and the menu comes back: nothing of the call is kept.
ReturnToMenu ==
    /\ pc = "done"
    /\ op' = "none"
    /\ args' = <<>>
    /\ ret' = NoOutcome
    /\ pc' = "menu"
    /\ UNCHANGED <<frame, tool, apps>>

Next ==
    \/ CalculateMonthlyPayment
    \/ CalculateTotalInterest
    \/ GenerateScheduleEnter
    \/ GenerateScheduleStep
    \/ GenerateScheduleReturn
    \/ CalculateLoanToValue
    \/ CalculateDebtToIncome
    \/ CalculatePmi
    \/ CalculateAffordability
    \/ CalculateRefinanceSavings
    \/ ReturnToMenu
    \/ ScenarioMonthlyPayment
    \/ ScenarioTotalInterest
    \/ ScenarioTotalCost
    \/ ScenarioEquityAtYear
    \/ ScenarioBreakEvenPoint
    \/ CalculateBreakEvenPoint
    \/ CalculateEquityBuildup
    \/ ScenarioRoundTrip
    \/ ScenarioFromDict
    \/ EnterComparisonTool
    \/ LeaveComparisonTool
    \/ AddScenario
    \/ RemoveScenario
    \/ ReverseScenarios
    \/ CompareEnter
    \/ CompareStep
    \/ CompareReturn
    \/ GenerateComparisonTable
    \/ ReturnToTool
    \/ OpenLoanApplications
    \/ CloseLoanApplications
    \/ SubmitLoanApplication
    \/ ProcessPendingEnter
    \/ ProcessPendingStep
    \/ ProcessPendingReturn
    \/ ResultsSeen

Spec == Init /\ [][Next]_vars


\* ------------------------------------------------------------ claim helpers

\* The call of function name has ended; op, args and ret describe it.
Done(name) == pc = "done" /\ op = name

\* sum(payment['interest'] for payment in schedule), as app.py reports it.
RECURSIVE SumInterest(_)
SumInterest(s) == IF s = <<>> THEN 0 ELSE s[1].interest + SumInterest(Tail(s))

RECURSIVE SumPrincipal(_)
SumPrincipal(s) == IF s = <<>> THEN 0 ELSE s[1].principal + SumPrincipal(Tail(s))

\* One cent.
Cent == Real(1, 100)

\* ------------------------------------------------------------------- claims

C2_BalanceRetired ==
    (Done("generate_amortization_schedule") /\ ValidLoan(args)) =>
        /\ ret.tag = "value"
        /\ ret.v[Len(ret.v)].remaining_balance = 0
        /\ Abs(SumPrincipal(ret.v) - args.principal) <= Cent

\* A schedule has been returned whose last payment absorbed a non-zero
\* residual: its principal portion is not payment - interest.
C2_Witness ==
    /\ Done("generate_amortization_schedule")
    /\ ValidLoan(args)
    /\ ret.tag = "value"
    /\ LET last == ret.v[Len(ret.v)]
       IN  /\ last.remaining_balance = 0
           /\ last.principal # last.payment - last.interest

\* C3: calculate_monthly_payment at an annual rate of 0 and a term > 0
\* returns principal / (term_years * 12) (the quotient rounded to the
\* nearest representable value) and raises nothing: the annuity formula,
\* whose divisor is zero at this rate, is not evaluated.
C3_ZeroRatePayment ==
    (Done("calculate_monthly_payment") /\ args.annual_interest_rate = 0
                                       /\ args.term_years > 0) =>
        /\ ret.tag = "value"
        /\ 2 * Abs(ret.v * (args.term_years * 12) - args.principal)
              <= args.term_years * 12

\* A zero-rate payment has been computed for a positive principal that the
\* number of payments does not divide.
C3_Witness ==
    /\ Done("calculate_monthly_payment")
    /\ args.annual_interest_rate = 0
    /\ args.term_years > 0
    /\ args.principal > 0
    /\ ret.tag = "value"
    /\ ret.v * (args.term_years * 12) # args.principal

\* C4: calculate_monthly_payment fails (raises, and returns no number)
\* whenever principal <= 0, the annual rate < 0 or term_years <= 0.  Any
\* raise is counted as the failure the claim asks for.
C4_InvalidLoanRejected ==
    (Done("calculate_monthly_payment") /\ ~ValidLoan(args)) => ret.tag = "raise"

\* C5: for every valid loan calculate_total_interest equals the sum of the
\* interest portions of the schedule generate_amortization_schedule returns
\* for the same loan (the figure app.py's generate_schedule reports).
C5_TotalInterestIsScheduleSum ==
    (Done("generate_amortization_schedule") /\ ValidLoan(args)) =>
        /\ ret.tag = "value"
        /\ calculate_total_interest(args.principal, args.annual_interest_rate,
                                    args.term_years) = Val(SumInterest(ret.v))

\* C6: calculate_loan_to_value fails when property_value <= 0 and
\* calculate_debt_to_income fails when monthly_income <= 0; for a positive
\* denominator they return numerator / denominator * 100.
C6_RatioDenominators ==
    /\ Done("calculate_loan_to_value") =>
          IF args.property_value <= 0
          THEN ret.tag = "raise"
          ELSE ret = Val(Div(args.loan_amount, args.property_value) * 100)
    /\ Done("calculate_debt_to_income") =>
          IF args.monthly_income <= 0
          THEN ret.tag = "raise"
          ELSE ret = Val(Div(args.monthly_debt, args.monthly_income) * 100)

\* The loan-to-value ratio loan_amount / property_value is at most 80%
\* (property_value # 0): 5 * loan <= 4 * value, the sense of the comparison
\* turning with the sign of the value.
LtvAtMost80(loan_amount, property_value) ==
    IF property_value > 0
    THEN 5 * loan_amount <= 4 * property_value
    ELSE 5 * loan_amount >= 4 * property_value

\* C7: calculate_pmi returns 0 whenever the loan-to-value ratio is at most
\* 80% (exactly 80% included) and loan_amount * 0.005 (the amount whose
\* 200-fold is the loan) whenever it is above 80%; it returns nothing else.
C7_PmiTwoValues ==
    (Done("calculate_pmi") /\ args.property_value # 0) =>
        /\ ret.tag = "value"
        /\ IF LtvAtMost80(args.loan_amount, args.property_value)
           THEN ret.v = 0
           ELSE ret.v * 200 = args.loan_amount

\* PMI has been computed for a loan at exactly 80% of the property value.
C7_Witness ==
    /\ Done("calculate_pmi")
    /\ args.property_value > 0
    /\ args.loan_amount > 0
    /\ 5 * args.loan_amount = 4 * args.property_value
    /\ ret = Val(0)

\* max_pi as the claim C8 states it: (0.43 * income - debts) divided by
\* 1 + tax/12 + insurance/12, for the default tax and insurance rates.
C8_MaxPI(a) ==
    Div(Mul(Real(43, 100), a.monthly_income) - a.monthly_debts,
        One + DivInt(Real(125, 10000), 12) + DivInt(Real(35, 10000), 12))

\* The payment of a loan of the returned price less the down payment.
C8_PaymentBack(a, price) ==
    calculate_monthly_payment(price - a.down_payment, a.annual_interest_rate,
                              a.term_years)

\* The affordability call C8 is about: a term > 0 (the rates of
\* ValidRateSet are all >= 0).
C8_Case == Done("calculate_affordability") /\ args.term_years > 0

C9_NonPositiveTermRejected ==
    (Done("calculate_affordability") /\ args.term_years <= 0) => ret.tag = "raise"

\* C10: calculate_refinance_savings computes current_payment and
\* new_payment on the same principal, the remaining balance, and returns
\* monthly_savings = current_payment - new_payment, lifetime_savings =
\* current_payment * current_term_remaining * 12 - new_payment * new_term
\* * 12 - closing_costs, and break_even_months = closing_costs /
\* monthly_savings whenever monthly_savings > 0; it returns a result
\* whenever both terms are positive.
C10_RefinanceResult ==
    Done("calculate_refinance_savings") =>
        LET current == calculate_monthly_payment(args.current_principal,
                           args.current_rate, args.current_term_remaining)
            new     == calculate_monthly_payment(args.current_principal,
                           args.new_rate, args.new_term)
        IN  /\ (args.current_term_remaining > 0 /\ args.new_term > 0)
                  => ret.tag = "value"
            /\ ret.tag = "value" =>
                  /\ ret.v.current_payment = current.v
                  /\ ret.v.new_payment = new.v
                  /\ ret.v.monthly_savings = current.v - new.v
                  /\ ret.v.lifetime_savings =
                        current.v * args.current_term_remaining * 12
                        - new.v * args.new_term * 12 - args.closing_costs
                  /\ ret.v.monthly_savings > 0 =>
                        ret.v.break_even_months =
                            Finite(Div(args.closing_costs, ret.v.monthly_savings))

\* A refinance at another rate with closing costs has been analysed and
\* saves money every month.
C10_Witness ==
    /\ Done("calculate_refinance_savings")
    /\ ret.tag = "value"
    /\ args.closing_costs > 0
    /\ args.new_rate # args.current_rate
    /\ ret.v.monthly_savings > 0
    /\ ret.v.break_even_months.v > 0

\* C11: when monthly_savings <= 0, calculate_refinance_savings returns for
\* break_even_months a sentinel that is not a number; it never returns an
\* infinite number.
C11_NoBreakEvenIsSentinel ==
    (Done("calculate_refinance_savings") /\ ret.tag = "value"
        /\ ret.v.monthly_savings <= 0)
    => (ret.v.break_even_months.kind # "float" /\ ~ret.v.break_even_months.inf)

\* The refinance raises the monthly payment and still saves money over the
\* life of the loan.
C12_Case ==
    /\ Done("calculate_refinance_savings")
    /\ ret.tag = "value"
    /\ ret.v.new_payment > ret.v.current_payment
    /\ ret.v.lifetime_savings > 0

\* C12: for a refinance whose new payment is higher and whose lifetime
\* savings are positive, the result reports the refinance as beneficial and,
\* as a separate signal, that the monthly payment increases.
C12_ReportsBeneficialAndIncrease ==
    C12_Case => /\ {"beneficial", "payment_increases"} \subseteq DOMAIN ret.v
                /\ ret.v.beneficial = TRUE
                /\ ret.v.payment_increases = TRUE

\* The rate a scenario is to be computed at, read from the arguments.
C13_Rate(self) ==
    IF self.reduced_rate.kind = "float" THEN self.reduced_rate.v ELSE self.interest_rate

C13_TotalCost(self, total_interest) ==
    IF total_interest.tag = "raise"
    THEN total_interest
    ELSE Val(self.loan_amount + total_interest.v
             + Mul(DivInt(self.points_paid, 100), self.loan_amount))

\* C13: the monthly payment, the total interest and the total cost of a
\* scenario are computed at the reduced rate when it is set and at the
\* interest rate otherwise, and the total cost is the loan amount plus the
\* total interest at that rate plus points_paid / 100 x loan_amount.
C13_EffectiveRate ==
    /\ Done("MortgageScenario.calculate_monthly_payment")
       => ret = calculate_monthly_payment(args.self.loan_amount, C13_Rate(args.self),
                                          args.self.term_years)
    /\ Done("MortgageScenario.calculate_total_interest")
       => ret = calculate_total_interest(args.self.loan_amount, C13_Rate(args.self),
                                         args.self.term_years)
    /\ Done("MortgageScenario.calculate_total_cost")
       => ret = C13_TotalCost(args.self,
                    calculate_total_interest(args.self.loan_amount,
                                             C13_Rate(args.self), args.self.term_years))

\* A total cost with points paid, at a reduced rate that gives another
\* payment than the interest rate.
C13_Witness ==
    /\ Done("MortgageScenario.calculate_total_cost")
    /\ ret.tag = "value"
    /\ args.self.points_paid > 0
    /\ args.self.reduced_rate # None
    /\ args.self.reduced_rate.v < args.self.interest_rate
    /\ args.self.loan_amount > 0
    /\ ret.v > args.self.loan_amount
    /\ ret # C13_TotalCost(args.self,
                  calculate_total_interest(args.self.loan_amount,
                                           args.self.interest_rate, args.self.term_years))

\* C14: calculate_equity_at_year returns the down payment for every
\* year <= 0 and the property value for every year >= term_years, the year
\* of the term included, also when the property value was given and differs
\* from loan_amount + down_payment.
C14_EquityAtYearEnds ==
    Done("MortgageScenario.calculate_equity_at_year")
    => /\ args.year <= 0 => ret = Val(args.self.down_payment)
       /\ (args.year > 0 /\ args.self.term_years > 0
              /\ args.year >= args.self.term_years)
          => ret = Val(args.self.property_value)

\* The payments of a scenario at its interest rate and at its reduced rate.
C15_Without(self) ==
    calculate_monthly_payment(self.loan_amount, self.interest_rate, self.term_years)

C15_With(self) ==
    calculate_monthly_payment(self.loan_amount, self.reduced_rate.v, self.term_years)

\* The fields of the scenario alone say that no break-even point applies.
C15_NotApplicableByFields(self) ==
    \/ self.points_paid = 0
    \/ self.reduced_rate.kind = "None"
    \/ self.reduced_rate.v >= self.interest_rate

C15_Quotient(points_cost, monthly_savings) == Finite(Div(points_cost, monthly_savings))

C15_PointsCostOf(self) == Mul(DivInt(self.points_paid, 100), self.loan_amount)

\* C15 as stated: the break-even point of the points is None whenever
\* points_paid = 0, the reduced rate is unset or not below the interest rate,
\* or the monthly savings are <= 0; in every other case it is
\* points_cost / monthly_savings, a positive number.
C15_BreakEvenAlwaysPositive ==
    /\ Done("MortgageScenario.calculate_break_even_point")
       => IF \/ C15_NotApplicableByFields(args.self)
             \/ /\ C15_With(args.self).tag = "value"
                /\ C15_Without(args.self).tag = "value"
                /\ C15_Without(args.self).v - C15_With(args.self).v <= 0
          THEN ret = Val(None)
          ELSE /\ ret.tag = "value"
               /\ ret.v.kind = "float"
               /\ ret.v.v > 0
    /\ Done("calculate_break_even_point")
       => IF args.monthly_savings <= 0
          THEN ret = Val(None)
          ELSE /\ ret = Val(C15_Quotient(args.points_cost, args.monthly_savings))
               /\ ret.v.v > 0

\* C15 as the code has it: None in the four cases; otherwise
\* points_cost / monthly_savings, which is positive when the points (the
\* points cost, for the helper) are positive; a scenario whose payments
\* cannot be computed raises the exception of calculate_monthly_payment.
C15_BreakEvenPoint ==
    /\ Done("MortgageScenario.calculate_break_even_point")
       => IF C15_NotApplicableByFields(args.self)
          THEN ret = Val(None)
          ELSE IF C15_With(args.self).tag = "raise"
          THEN ret = C15_With(args.self)
          ELSE IF C15_Without(args.self).tag = "raise"
          THEN ret = C15_Without(args.self)
          ELSE IF C15_Without(args.self).v - C15_With(args.self).v <= 0
          THEN ret = Val(None)
          ELSE /\ ret = Val(C15_Quotient(C15_PointsCostOf(args.self),
                            C15_Without(args.self).v - C15_With(args.self).v))
               /\ args.self.points_paid > 0 => ret.v.v > 0
    /\ Done("calculate_break_even_point")
       => IF args.monthly_savings <= 0
          THEN ret = Val(None)
          ELSE /\ ret = Val(C15_Quotient(args.points_cost, args.monthly_savings))
               /\ args.points_cost > 0 => ret.v.v > 0

\* A scenario with points paid for a lower rate that has a break-even point.
C15_Witness ==
    /\ Done("MortgageScenario.calculate_break_even_point")
    /\ args.self.points_paid > 0
    /\ ret.tag = "value"
    /\ ret.v.kind = "float"
    /\ ret.v.v > 0

\* A call of compare_scenarios has returned or raised; the caller holds ret.
Compared == pc = "compared" /\ op = "compare_scenarios"

C17_Columns(metrics) ==
    << metrics.monthly_payment, metrics.total_interest, metrics.total_cost,
       metrics.equity_5yr, metrics.equity_10yr, metrics.equity_15yr,
       metrics.break_even_point >>

\* C17: for a list of N >= 1 scenarios, compare_scenarios returns the N names
\* in the order of the list and seven metric arrays of length N whose entry
\* i is the metric of scenario i; nothing is sorted or merged.
C17_ColumnsFollowInput ==
    (Compared /\ args.scenarios # <<>> /\ ret.tag = "value")
    => /\ Len(ret.v.scenarios) = Len(args.scenarios)
       /\ \A i \in 1 .. Len(args.scenarios) :
             /\ ret.v.scenarios[i] = args.scenarios[i].name
             /\ \A k \in 1 .. 7 :
                   /\ Len(C17_Columns(ret.v.metrics)[k]) = Len(args.scenarios)
                   /\ C17_Columns(ret.v.metrics)[k][i]
                        = ScenarioMetrics(args.scenarios[i])[k].v

\* Two scenarios of the same name and different terms are compared and give
\* two columns.
C17_Witness ==
    /\ Compared
    /\ ret.tag = "value"
    /\ Len(args.scenarios) = 2
    /\ args.scenarios[1].name = args.scenarios[2].name
    /\ args.scenarios[1] # args.scenarios[2]
    /\ ret.v.scenarios = <<args.scenarios[1].name, args.scenarios[2].name>>
    /\ ret.v.metrics.monthly_payment[1] # ret.v.metrics.monthly_payment[2]

\* C18: what compare_scenarios returned does not change when the list is
\* reordered, appended to or shortened afterwards, and compare_scenarios
\* leaves the list and the scenarios in it as they were.
C18_ResultAndInputKept ==
    [][ /\ (pc = "compared" /\ pc' = "compared") => (ret' = ret /\ args' = args)
        /\ (pc \in {"tool", "compare"} /\ pc' \in {"compare", "compared"})
           => scenarios' = scenarios ]_vars

\* The list was changed after a comparison of two scenarios, and the result
\* still has the columns of the list that was compared.
C18_Witness ==
    /\ Compared
    /\ ret.tag = "value"
    /\ Len(args.scenarios) = 2
    /\ scenarios # args.scenarios
    /\ ret.v.scenarios = <<args.scenarios[1].name, args.scenarios[2].name>>

\* Some metric of scenario raises.
C19_Raises(scenario) == RaisingMetrics(ScenarioMetrics(scenario)) # {}

\* C19: when a metric of any scenario of the list raises, compare_scenarios
\* raises and the caller gets no comparison; a comparison that is returned
\* has a column for every scenario of the list.
C19_FailFast ==
    Compared =>
       /\ (\E i \in 1 .. Len(args.scenarios) : C19_Raises(args.scenarios[i]))
          => ret.tag = "raise"
       /\ (ret.tag = "value" /\ args.scenarios # <<>>)
          => Len(ret.v.scenarios) = Len(args.scenarios)

\* The first scenario of the list computes, the second has a term of 0
\* years, and the call raised.
C19_Witness ==
    /\ Compared
    /\ Len(args.scenarios) = 2
    /\ ~C19_Raises(args.scenarios[1])
    /\ args.scenarios[2].term_years = 0
    /\ ret.tag = "raise"

\* No call is running.
C20_BetweenCalls == pc \in {"menu", "done", "tool", "compared", "tabled"}

\* Nothing of an earlier call is left: the locals of
\* generate_amortization_schedule and of compare_scenarios are as they were
\* before the first call.
C20_NoResidue ==
    /\ monthly_rate = 0
    /\ num_payments = 0
    /\ monthly_payment = 0
    /\ schedule = <<>>
    /\ remaining_balance = 0
    /\ payment_num = 0
    /\ comparison = EmptyComparison
    /\ scenario_index = 0

C21_RoundTrip ==
    /\ Done("from_dict(to_dict)")
       => /\ ret.tag = "value"
          /\ ret.v.name = args.self.name
          /\ ret.v.loan_amount = args.self.loan_amount
          /\ ret.v.interest_rate = args.self.interest_rate
          /\ ret.v.term_years = args.self.term_years
          /\ ret.v.down_payment = args.self.down_payment
          /\ ret.v.property_value = args.self.property_value
          /\ ret.v.points_paid = args.self.points_paid
          /\ ret.v.reduced_rate = args.self.reduced_rate
          /\ ret.v.creation_date = args.self.creation_date
    /\ (Done("MortgageScenario.from_dict") /\ ret.tag = "value")
       => /\ "points_paid" \notin DOMAIN args.data => ret.v.points_paid = 0
          /\ "reduced_rate" \notin DOMAIN args.data => ret.v.reduced_rate.kind = "None"
          /\ "down_payment" \notin DOMAIN args.data => ret.v.down_payment = 0
          /\ "property_value" \notin DOMAIN args.data
             => ret.v.property_value = ret.v.loan_amount + ret.v.down_payment

\* A scenario with a property value of its own and a reduced rate came back
\* from its dictionary at a later time.
C21_Witness ==
    /\ Done("from_dict(to_dict)")
    /\ ret.tag = "value"
    /\ args.now # args.self.creation_date
    /\ args.self.reduced_rate # None
    /\ args.self.property_value # args.self.loan_amount + args.self.down_payment

\* C22: the table of a comparison of N >= 1 scenarios has 8 rows of N + 1
\* cells each; its first row is "Metric" followed by the names in the order
\* of the comparison; a break-even point of None is shown as "N/A".
C22_Table ==
    (pc = "tabled" /\ "error" \notin DOMAIN args.comparison_data)
    => LET data == args.comparison_data
           N == Len(data.scenarios)
           table == ret.v
       IN  /\ N >= 1
           /\ Len(table) = 8
           /\ \A r \in 1 .. 8 : Len(table[r]) = N + 1
           /\ table[1][1] = Text("Metric")
           /\ \A i \in 1 .. N : table[1][i + 1] = Text(data.scenarios[i])
           /\ \A i \in 1 .. N :
                 data.metrics.break_even_point[i] = None
                 => table[8][i + 1] = Text("N/A")

\* A table of two scenarios, one with a break-even point and one without.
C22_Witness ==
    /\ pc = "tabled"
    /\ "error" \notin DOMAIN args.comparison_data
    /\ Len(args.comparison_data.scenarios) = 2
    /\ args.comparison_data.metrics.break_even_point[1] = None
    /\ args.comparison_data.metrics.break_even_point[2] # None
    /\ ret.v[8][2] = Text("N/A")
    /\ ret.v[8][3].cell = "y m"

\* The records of a schedule that is being built or has been returned.
C23_Records ==
    IF pc = "loop" THEN schedule
    ELSE IF Done("generate_amortization_schedule") /\ ret.tag = "value" THEN ret.v
    ELSE <<>>

\* remaining_balance before payment k: the principal before the first.
C23_BalanceBefore(k) ==
    IF k = 1 THEN args.principal ELSE C23_Records[k - 1].remaining_balance

\* C23: in every schedule each record, the last included, has
\* interest = balance before * monthly rate and
\* remaining_balance = balance before - principal, the balance before the
\* first payment being the principal of the loan.
C23_RecordsChain ==
    \A k \in 1 .. Len(C23_Records) :
        /\ C23_Records[k].interest
              = Mul(C23_BalanceBefore(k), MonthlyRate(args.annual_interest_rate))
        /\ C23_Records[k].remaining_balance
              = C23_BalanceBefore(k) - C23_Records[k].principal

\* A returned schedule of a loan at a positive rate whose last payment
\* absorbed a residual that is not zero.
C23_Witness ==
    /\ Done("generate_amortization_schedule")
    /\ ret.tag = "value"
    /\ args.annual_interest_rate > 0
    /\ Len(ret.v) = NumPayments(MaxTermYears)
    /\ ret.v[Len(ret.v)].remaining_balance = 0
    /\ ret.v[Len(ret.v)].principal # ret.v[Len(ret.v)].payment - ret.v[Len(ret.v)].interest
    /\ ret.v[Len(ret.v)].interest > 0

\* The payment field of all records is the one of the first.
C24_SamePayment ==
    \A k \in 1 .. Len(C23_Records) : C23_Records[k].payment = C23_Records[1].payment

\* The last record of a complete schedule.
C24_IsFinal(k) == k = NumPayments(args.term_years)

\* C24 as stated: the payment field is the same in all records and every
\* record, the last included, has principal = payment - interest.
C24_EveryRecordSplitsPayment ==
    /\ C24_SamePayment
    /\ \A k \in 1 .. Len(C23_Records) :
          C23_Records[k].principal = C23_Records[k].payment - C23_Records[k].interest

\* C24, amended: the payment field is the same in all records; every record
\* before the last has principal = payment - interest, and the last has
\* principal = payment - interest plus the residual, the balance that
\* payment - interest would leave.
C24_SplitsPaymentButLast ==
    /\ C24_SamePayment
    /\ \A k \in 1 .. Len(C23_Records) :
          LET rec   == C23_Records[k]
              split == rec.payment - rec.interest
          IN  IF C24_IsFinal(k)
              THEN rec.principal = split + (C23_BalanceBefore(k) - split)
              ELSE rec.principal = split

\* A complete schedule of a valid loan whose last principal portion is not
\* payment - interest, while the ones before it are.
C24_Witness ==
    /\ Done("generate_amortization_schedule")
    /\ ValidLoan(args)
    /\ ret.tag = "value"
    /\ Len(ret.v) = NumPayments(args.term_years)
    /\ ret.v[Len(ret.v)].principal # ret.v[Len(ret.v)].payment - ret.v[Len(ret.v)].interest
    /\ ret.v[1].principal = ret.v[1].payment - ret.v[1].interest
    /\ ret.v[Len(ret.v)].payment = ret.v[1].payment

\* The equity of the claim: the down payment plus the loan less the balance
\* of the record numbered min(year * 12, num_payments) of the schedule sched.
C25_Equity(self, year, sched) ==
    self.down_payment
    + (self.loan_amount
       - sched[IF year * PaymentsPerYear < NumPayments(self.term_years)
               THEN year * PaymentsPerYear
               ELSE NumPayments(self.term_years)].remaining_balance)

\* C25: for every scenario and 0 < year < term_years, calculate_equity_at_year
\* returns the down payment plus the principal paid up to record
\* min(year * 12, num_payments) of the schedule at the effective rate; that
\* record exists, and the result lies strictly between the down payment and
\* the down payment plus the loan amount.
C25_EquityStrictlyBetween ==
    (/\ Done("MortgageScenario.calculate_equity_at_year")
     /\ 0 < args.year
     /\ args.year < args.self.term_years)
    => /\ ret.tag = "value"
       /\ \E sched \in {generate_amortization_schedule(args.self.loan_amount, EffectiveRate(args.self), args.self.term_years)} :
             /\ sched.tag = "value"
             /\ args.year * PaymentsPerYear \in 1 .. Len(sched.v)
             /\ ret.v = C25_Equity(args.self, args.year, sched.v)
       /\ ret.v > args.self.down_payment
       /\ ret.v < args.self.down_payment + args.self.loan_amount

\* The invariant of the claim on a scenario.
C26_Coupled(scenario) == scenario.reduced_rate # None => scenario.points_paid > 0

\* C26: every scenario that is constructed, by the constructor or by
\* from_dict, has a reduced rate only if points_paid > 0, and a scenario with
\* points_paid = 0 has its monthly payment computed at interest_rate.
C26_ReducedRateOnlyWithPoints ==
    /\ (Done("MortgageScenario.from_dict") /\ ret.tag = "value") => C26_Coupled(ret.v)
    /\ Done("MortgageScenario.calculate_monthly_payment")
       => /\ C26_Coupled(args.self)
          /\ args.self.points_paid = 0
             => ret = calculate_monthly_payment(args.self.loan_amount, args.self.interest_rate, args.self.term_years)

C28_Scenario ==
    MortgageScenario("S", args.principal, args.annual_interest_rate, args.term_years, args.down_payment, Finite(args.property_value), 0, None)

\* C28: calculate_equity_buildup returns what calculate_equity_at_year
\* returns for the scenario with the same loan amount, rate, term, down
\* payment and property value and no reduced rate, at the same year.
C28_EquityImplementationsAgree ==
    Done("calculate_equity_buildup")
    => ret = MortgageScenario_calculate_equity_at_year(C28_Scenario, args.years)

\* The equity was read from the schedule in the last year of the term, and it
\* is neither the property value nor the down payment.
C28_Witness ==
    /\ Done("calculate_equity_buildup")
    /\ args.years = args.term_years
    /\ args.years > 0
    /\ ret.tag = "value"
    /\ ret.v # args.property_value
    /\ ret.v # args.down_payment

C30_Rejections == {"Credit score too low", "Loan amount too high relative to income"}

\* C30: after process_pending_applications the stored status of every
\* application it reported matches the report: Approved after
\* "Application approved", Rejected after a rejection, and so never Pending;
\* also when the admin password is not configured or the update is refused.
C30_ReportMatchesStatus ==
    (pc = "processed" /\ ret.tag = "value")
    => \A i \in 1 .. Len(ret.v) :
          /\ ret.v[i].message = "Application approved"
             => /\ ret.v[i].success
                /\ applications[ret.v[i].application_id].status = "Approved"
          /\ ret.v[i].message \in C30_Rejections
             => /\ ~ret.v[i].success
                /\ applications[ret.v[i].application_id].status = "Rejected"
          /\ ret.v[i].message \in C30_Rejections \cup {"Application approved"}
             => applications[ret.v[i].application_id].status # "Pending"

==========================================================================
